---- MODULE Spec2Model ----
(***************************************************************************)
(* Model of the Baserow reconciliation tool                                *)
(*   src/src/BaaserowAutomationFile.py  (_compute_id_control_digit and     *)
(*                                       class BaserowAutomations)         *)
(*   src/app.py                         (getTrainingParticipantCounts,     *)
(*                                       parse_date)                       *)
(*                                                                         *)
(* Python strings are sequences of one-character strings, so that zfill,   *)
(* strip, split and join are computed and not assumed.  The remote tables  *)
(* are sequences of rows; a fetched row is a local copy that reaches the   *)
(* table only through row.update(), which may raise.                       *)
(*                                                                         *)
(* Column names: tz = 'ת.ז', tz_tkina = 'ת"ז תקינה',                       *)
(* shem_rishumon = 'שם רישומון', shem_elector = 'שם אלקטור',               *)
(* muamad = 'מועמד.ת לצוות', telefon = 'טלפון',                            *)
(* peilei_shetach = 'פעילי שטח', phone = '_NormalizedPhoneNumber',         *)
(* rishum_leirua = 'רישום לאירוע'.  KEN = 'כן', LO = 'לא'.                 *)
(***************************************************************************)
EXTENDS Integers, Sequences, FiniteSets, TLC

VARIABLES
    pc,                         \* position of the running operation
    table_activists,            \* remote table: activists
    table_event_registration,   \* remote table: event registrations
    recruitment_table,          \* remote table: recruitment candidates
    rows,                       \* the rows an operation fetched (local copies)
    recruitment_rows,           \* link: the fetched recruitment rows
    i,                          \* index of the next row of the scan
    phone_to_field_dict,        \* fill: phone -> list of values
    full_run,                   \* fill: argument
    additional_query_function,  \* fill: argument (None or phone -> list)
    rishumon_query_engine,      \* fill_name_by_id: argument
    elector_query_engine,       \* fill_name_by_id: argument
    id_num,                     \* _compute_id_control_digit: argument
    check_digit,                \* _compute_id_control_digit: outcome
    phones_to_names,            \* find_duplicates: the dict being built
    today,                      \* date.today()
    training_dic,               \* getTrainingParticipantCounts: the dict
    update_log,                 \* history: every row.update() call, in order
    raised,                     \* the exception that left the operation
    run,                        \* fill: number of the invocation (1 or 2)
    after_first_run,            \* history: table_activists after run 1
    initial_activists,          \* history: table_activists at the start
    updates_can_fail            \* environment: row.update() may raise

vars == <<pc, table_activists, table_event_registration, recruitment_table,
          rows, recruitment_rows, i, phone_to_field_dict, full_run,
          additional_query_function, rishumon_query_engine,
          elector_query_engine, id_num, check_digit, phones_to_names, today,
          training_dic, update_log, raised, run, after_first_run,
          initial_activists, updates_can_fail>>

----------------------------------------------------------------------------
(* Python values and strings                                               *)

None == "None"
NoException == "none"
AssertionError == "AssertionError"
ValueError == "ValueError"
UpdateError == "UpdateError"

SeqsUpTo(S, n) == UNION {[1..k -> S] : k \in 0..n}

Range(s) == {s[k] : k \in 1..Len(s)}

DecimalChars == <<"0", "1", "2", "3", "4", "5", "6", "7", "8", "9">>

\* str.isdecimal of one character: the characters int() accepts
IsDecimalChar(c) == \E k \in 1..Len(DecimalChars) : DecimalChars[k] = c

\* "sup2" is the character SUPERSCRIPT TWO: numeric, yet no decimal digit
IsNumericChar(c) == IsDecimalChar(c) \/ c = "sup2"

\* str.isnumeric: non-empty and every character numeric
isnumeric(s) == Len(s) > 0 /\ \A k \in 1..Len(s) : IsNumericChar(s[k])

\* int(c) of a decimal character
int(c) == (CHOOSE k \in 1..Len(DecimalChars) : DecimalChars[k] = c) - 1

Zeros(n) == [k \in 1..n |-> "0"]

\* str.zfill: pad with zeros on the left, after a leading sign
zfill(s, width) ==
    IF Len(s) >= width THEN s
    ELSE IF Len(s) > 0 /\ s[1] \in {"+", "-"}
         THEN <<s[1]>> \o Zeros(width - Len(s)) \o Tail(s)
         ELSE Zeros(width - Len(s)) \o s

IsSpace(c) == c = " "

RECURSIVE lstrip(_)
lstrip(s) == IF Len(s) > 0 /\ IsSpace(s[1]) THEN lstrip(Tail(s)) ELSE s

RECURSIVE rstrip(_)
rstrip(s) ==
    IF Len(s) > 0 /\ IsSpace(s[Len(s)])
    THEN rstrip(SubSeq(s, 1, Len(s) - 1))
    ELSE s

\* str.strip
strip(s) == rstrip(lstrip(s))

----------------------------------------------------------------------------
(* _compute_id_control_digit                                               *)

IdLength == 9

OddContributionNoCarry(val) == IF val < 5 THEN 2 * val ELSE (2 * val) % 10

\* what an odd index adds to total
OddContribution(val) == IF val < 5 THEN 2 * val ELSE ((2 * val) % 10) + 1

\* the loop "for i in range(9)", from index k (0-based) with total so far
RECURSIVE IdTotal(_, _, _)
IdTotal(s, k, total) ==
    IF k = IdLength THEN total
    ELSE LET val == int(s[k + 1])
         IN IdTotal(s, k + 1,
                    IF k % 2 = 0 THEN total + val
                    ELSE total + OddContribution(val))

\* the outcome of a call: the value it returns or the exception it raises
Returns(v) == [raises |-> NoException, value |-> v]
Raises(e) == [raises |-> e, value |-> -1]
NotCalled == [raises |-> "not called", value |-> -1]

\* the check digit, or the exception the call raises: the assert of line 12,
\* or int() of a numeric character that is no decimal digit
compute_id_control_digit(id) ==
    LET s == zfill(id, IdLength)
    IN IF ~(Len(s) = IdLength /\ isnumeric(s)) THEN Raises(AssertionError)
       ELSE IF \E k \in 1..IdLength : ~IsDecimalChar(s[k])
            THEN Raises(ValueError)
       ELSE LET total == IdTotal(s, 0, 0) % 10
            IN Returns((10 - total) % 10)

----------------------------------------------------------------------------
(* Rows, tables and row.update()                                           *)

KEN == "ken"
LO == "lo"

\* Table.get_rows(filters) is SelectSeq: the rows that pass, as local copies

\* a successful row.update(): the table's row takes the local row's fields
Persist(table, row) == [table EXCEPT ![row.id] = row]

LogEntry(tableName, row, ok) == [table |-> tableName, row |-> row, ok |-> ok]

\* update_row_safe(row) on the activists table; ok: row.update() did not raise
UpdateRowSafe(row, ok) ==
    /\ table_activists' = IF ok THEN Persist(table_activists, row)
                          ELSE table_activists
    /\ update_log' = Append(update_log, LogEntry("activists", row, ok))

NoFillState ==
    /\ phone_to_field_dict = <<>>
    /\ full_run = FALSE
    /\ additional_query_function = None
    /\ run = 0
    /\ after_first_run = <<>>

NoEngines == rishumon_query_engine = None /\ elector_query_engine = None

NoChecksumState == id_num = <<>> /\ check_digit = NotCalled

NoReportState == today = <<>> /\ training_dic = <<>>

NoLinkState == recruitment_table = <<>> /\ recruitment_rows = <<>>

\* the outcomes of row.update(): it returned (TRUE) or raised (FALSE)
UpdateOutcomes == IF updates_can_fail THEN BOOLEAN ELSE {TRUE}

NoScanState ==
    /\ updates_can_fail = TRUE
    /\ rows = <<>>
    /\ i = 0
    /\ update_log = <<>>
    /\ raised = NoException

NoActivists == table_activists = <<>> /\ initial_activists = <<>>

----------------------------------------------------------------------------
(* Specification SpecChecksum: one call of _compute_id_control_digit       *)

MaxIdSuffix == 3

IdChars == Range(DecimalChars) \cup {"a", "sup2", "-"}

IdPrefixes == {<<>>, <<"1", "2", "3", "4", "5", "6">>,
               <<"0", "9", "0", "7", "5", "8">>}

IdInputs == {p \o s : p \in IdPrefixes, s \in SeqsUpTo(IdChars, MaxIdSuffix)}

InitChecksum ==
    /\ pc = "compute_id_control_digit"
    /\ id_num \in IdInputs
    /\ check_digit = NotCalled
    /\ table_event_registration = <<>>
    /\ phones_to_names = <<>>
    /\ NoActivists /\ NoScanState /\ NoFillState /\ NoEngines
    /\ NoReportState /\ NoLinkState

ComputeIdControlDigit ==
    /\ pc = "compute_id_control_digit"
    /\ check_digit' = compute_id_control_digit(id_num)
    /\ pc' = IF check_digit'.raises = NoException THEN "done" ELSE "raised"
    /\ raised' = check_digit'.raises
    /\ UNCHANGED <<table_activists, table_event_registration,
                   recruitment_table, rows, recruitment_rows, i,
                   phone_to_field_dict, full_run, additional_query_function,
                   rishumon_query_engine, elector_query_engine, id_num,
                   phones_to_names, today, training_dic, update_log, run,
                   after_first_run, initial_activists,
                   updates_can_fail>>

NextChecksum == ComputeIdControlDigit

SpecChecksum == InitChecksum /\ [][NextChecksum]_vars

IsNineDecimalDigits(s) ==
    Len(s) = 9 /\ \A k \in 1..9 : IsDecimalChar(s[k])

\* the claim's term for 0-based position k
ClaimTerm(s, k) ==
    LET d == int(s[k + 1])
    IN IF k % 2 = 0 THEN d
       ELSE IF 2 * d < 10 THEN 2 * d ELSE 2 * d - 9

ClaimTotal(s) ==
    ClaimTerm(s, 0) + ClaimTerm(s, 1) + ClaimTerm(s, 2) + ClaimTerm(s, 3)
    + ClaimTerm(s, 4) + ClaimTerm(s, 5) + ClaimTerm(s, 6) + ClaimTerm(s, 7)
    + ClaimTerm(s, 8)

\* C1: for every string of exactly 9 decimal digits the call returns
\* (10 - total) mod 10, total being the sum of the digits at even positions
\* and, at odd positions, of the doubled digit (minus 9 when it is 10 or
\* more); the result is 0 exactly when total is a multiple of 10, and it
\* lies in 0..9 ("000000000" gives 0).
C1_CheckDigit ==
    (pc /= "compute_id_control_digit" /\ IsNineDecimalDigits(id_num)) =>
        /\ pc = "done"
        /\ check_digit.raises = NoException
        /\ check_digit.value = (10 - ClaimTotal(id_num)) % 10
        /\ check_digit.value \in 0..9
        /\ (check_digit.value = 0) <=> (ClaimTotal(id_num) % 10 = 0)
        /\ id_num = Zeros(9) => check_digit.value = 0

\* a valid 9-digit id with a digit of 5 or more at an odd position
C1_Witness ==
    /\ pc = "done"
    /\ id_num = <<"1", "2", "3", "4", "5", "6", "7", "8", "2">>
    /\ check_digit = Returns(0)

----------------------------------------------------------------------------
(* Specification SpecValidate: one call of validate_ids                    *)

MaxActivists == 2

\* a table whose rows are drawn from RowSet, each with its row id
WithIds(t) == [k \in 1..Len(t) |-> [id |-> k] @@ t[k]]
Tables(RowSet, n) == {WithIds(t) : t \in SeqsUpTo(RowSet, n)}

ValidId == <<"1", "2", "3", "4", "5", "6", "7", "8", "2">>
InvalidId == <<"1", "2", "3", "4", "5", "6", "7", "8", "9">>
ShortValidId == <<"1", "8">>
LetterId == <<"1", "2", "a">>
LongId == <<"1", "2", "3", "4", "5", "6", "7", "8", "9", "0">>
SuperscriptId == <<"1", "2", "3", "4", "5", "6", "7", "8", "sup2">>

IdSamples == {<<>>, ValidId, InvalidId, ShortValidId, LetterId, LongId,
              SuperscriptId}

ValidateRows == [tz : IdSamples, tz_tkina : {"", KEN}]

InitValidate ==
    /\ pc = "validate_ids"
    /\ table_activists \in Tables(ValidateRows, MaxActivists)
    /\ initial_activists = table_activists
    /\ table_event_registration = <<>>
    /\ phones_to_names = <<>>
    /\ NoScanState /\ NoFillState /\ NoEngines /\ NoChecksumState
    /\ NoReportState /\ NoLinkState

\* the filters of lines 55-56
IdNotCheckedAndExists(row) == row.tz_tkina = "" /\ row.tz /= <<>>

ValidateIdsFetch ==
    /\ pc = "validate_ids"
    /\ rows' = SelectSeq(table_activists, IdNotCheckedAndExists)
    /\ i' = 1
    /\ pc' = "validate_ids_loop"
    /\ UNCHANGED <<table_activists, table_event_registration,
                   recruitment_table, recruitment_rows, phone_to_field_dict,
                   full_run, additional_query_function,
                   rishumon_query_engine, elector_query_engine, id_num,
                   check_digit, phones_to_names, today, training_dic,
                   update_log, raised, run, after_first_run,
                   initial_activists,
                   updates_can_fail>>

\* one iteration of the loop of lines 59-75
ValidateIdsRow ==
    /\ pc = "validate_ids_loop"
    /\ i <= Len(rows)
    /\ LET id_validation == compute_id_control_digit(rows[i].tz)
       IN \/ /\ id_validation.raises = AssertionError
             /\ i' = i + 1
             /\ UNCHANGED <<pc, rows, table_activists, update_log, raised>>
          \/ /\ id_validation.raises = ValueError
             /\ raised' = ValueError
             /\ pc' = "raised"
             /\ UNCHANGED <<i, rows, table_activists, update_log>>
          \/ /\ id_validation.raises = NoException
             /\ LET row == [rows[i] EXCEPT !.tz_tkina =
                               IF id_validation.value /= 0 THEN LO ELSE KEN]
                IN /\ rows' = [rows EXCEPT ![i] = row]
                   /\ \E ok \in UpdateOutcomes : UpdateRowSafe(row, ok)
             /\ i' = i + 1
             /\ UNCHANGED <<pc, raised>>
    /\ UNCHANGED <<table_event_registration, recruitment_table,
                   recruitment_rows, phone_to_field_dict, full_run,
                   additional_query_function, rishumon_query_engine,
                   elector_query_engine, id_num, check_digit,
                   phones_to_names, today, training_dic, run,
                   after_first_run, initial_activists,
                   updates_can_fail>>

ValidateIdsReturn ==
    /\ pc = "validate_ids_loop"
    /\ i > Len(rows)
    /\ pc' = "done"
    /\ UNCHANGED <<table_activists, table_event_registration,
                   recruitment_table, rows, recruitment_rows, i,
                   phone_to_field_dict, full_run, additional_query_function,
                   rishumon_query_engine, elector_query_engine, id_num,
                   check_digit, phones_to_names, today, training_dic,
                   update_log, raised, run, after_first_run,
                   initial_activists,
                   updates_can_fail>>

NextValidate == ValidateIdsFetch \/ ValidateIdsRow \/ ValidateIdsReturn

SpecValidate == InitValidate /\ [][NextValidate]_vars

\* the update calls issued for the activist row with this id
UpdatesOf(rowId) ==
    {k \in 1..Len(update_log) :
        update_log[k].table = "activists" /\ update_log[k].row.id = rowId}

\* the 9-digit-numeric shape check of the claim, after padding
PassesShapeCheck(id) ==
    LET s == zfill(id, 9) IN Len(s) = 9 /\ isnumeric(s)

Ended == pc \in {"done", "raised"}

\* C7: in validate_ids, for every fetched row: if the ID fails the shape
\* check the assertion error is caught, the validity field stays unset, no
\* update is issued and the scan goes on; otherwise the validity field is
\* set to KEN exactly when the check digit is 0 and to LO when it is not.
C7_ValidateIds ==
    Ended =>
        /\ pc = "done"
        /\ \A k \in 1..Len(rows) :
              IF ~PassesShapeCheck(rows[k].tz)
              THEN rows[k].tz_tkina = "" /\ UpdatesOf(rows[k].id) = {}
              ELSE /\ rows[k].tz_tkina \in {KEN, LO}
                   /\ IsNineDecimalDigits(zfill(rows[k].tz, 9)) =>
                        ((rows[k].tz_tkina = KEN) <=>
                         (ClaimTotal(zfill(rows[k].tz, 9)) % 10 = 0))
                   /\ Cardinality(UpdatesOf(rows[k].id)) = 1
                   /\ \A u \in UpdatesOf(rows[k].id) :
                          update_log[u].row.tz_tkina = rows[k].tz_tkina

----------------------------------------------------------------------------
(* Specification SpecName: one call of fill_name_by_id                     *)

OldName == <<"o", "l", "d">>
NOT_FOUND == <<"N", "O", "T", " ", "F", "O", "U", "N", "D">>

NameIdSamples == {<<>>, ValidId, InvalidId, LetterId, SuperscriptId}

NameRows == [tz : NameIdSamples, shem_rishumon : {<<>>, OldName},
             shem_elector : {<<>>, OldName}]

\* a query engine: whether one was supplied (not None) and the list that
\* query(ID=...) returns for each ID
RishumonRecord == [Name |-> <<"d">>, Family |-> <<"l">>]
ElectorRecord == [first_name |-> <<"d">>, last_name |-> <<"l">>]
NoEngine == [supplied |-> FALSE, query |-> [id \in NameIdSamples |-> <<>>]]
EngineFinding(record) ==
    [supplied |-> TRUE,
     query |-> [id \in NameIdSamples |->
                   IF id = ValidId THEN <<record>> ELSE <<>>]]
EngineFindingNothing ==
    [supplied |-> TRUE, query |-> [id \in NameIdSamples |-> <<>>]]
RishumonEngines ==
    {NoEngine, EngineFindingNothing, EngineFinding(RishumonRecord)}
ElectorEngines ==
    {NoEngine, EngineFindingNothing, EngineFinding(ElectorRecord)}

InitName ==
    /\ pc = "fill_name_by_id"
    /\ table_activists \in Tables(NameRows, MaxActivists)
    /\ initial_activists = table_activists
    /\ rishumon_query_engine \in RishumonEngines
    /\ elector_query_engine \in ElectorEngines
    /\ table_event_registration = <<>>
    /\ phones_to_names = <<>>
    /\ NoScanState /\ NoFillState /\ NoChecksumState /\ NoReportState
    /\ NoLinkState

\* the filters of lines 189-196
NameFilters(row) ==
    /\ row.tz /= <<>>
    /\ (rishumon_query_engine.supplied /\ ~elector_query_engine.supplied)
          => row.shem_rishumon = <<>>
    /\ (~rishumon_query_engine.supplied /\ elector_query_engine.supplied)
          => row.shem_elector = <<>>

\* lines 193-198: without an engine the call returns at once
FillNameByIdFetch ==
    /\ pc = "fill_name_by_id"
    /\ IF ~rishumon_query_engine.supplied /\ ~elector_query_engine.supplied
       THEN pc' = "done" /\ UNCHANGED <<rows, i>>
       ELSE /\ rows' = SelectSeq(table_activists, NameFilters)
            /\ i' = 1
            /\ pc' = "fill_name_by_id_loop"
    /\ UNCHANGED <<table_activists, table_event_registration,
                   recruitment_table, recruitment_rows, phone_to_field_dict,
                   full_run, additional_query_function,
                   rishumon_query_engine, elector_query_engine, id_num,
                   check_digit, phones_to_names, today, training_dic,
                   update_log, raised, run, after_first_run,
                   initial_activists,
                   updates_can_fail>>

\* lines 218-221: the name an engine's answer gives
RishumonName(query_results) ==
    IF query_results /= <<>>
    THEN query_results[1].Name \o <<" ">> \o query_results[1].Family
    ELSE NOT_FOUND

ElectorName(query_results) ==
    IF query_results /= <<>>
    THEN query_results[1].first_name \o <<" ">> \o query_results[1].last_name
    ELSE NOT_FOUND

\* one iteration of the loop of lines 201-223; ok1, ok2: the two updates
FillNameByIdRow ==
    /\ pc = "fill_name_by_id_loop"
    /\ i <= Len(rows)
    /\ LET ID == rows[i].tz
           validation == compute_id_control_digit(ID)
       IN \/ /\ \/ validation.raises = AssertionError
                \/ validation.raises = NoException /\ validation.value /= 0
             /\ i' = i + 1
             /\ UNCHANGED <<pc, rows, table_activists, update_log, raised>>
          \/ /\ validation.raises = ValueError
             /\ raised' = ValueError
             /\ pc' = "raised"
             /\ UNCHANGED <<i, rows, table_activists, update_log>>
          \/ /\ validation = Returns(0)
             /\ \E ok1, ok2 \in UpdateOutcomes :
                  LET row1 == IF rishumon_query_engine.supplied
                              THEN [rows[i] EXCEPT !.shem_rishumon =
                                     RishumonName(rishumon_query_engine.query[ID])]
                              ELSE rows[i]
                      row2 == IF elector_query_engine.supplied
                              THEN [row1 EXCEPT !.shem_elector =
                                     ElectorName(elector_query_engine.query[ID])]
                              ELSE row1
                      table1 == IF rishumon_query_engine.supplied /\ ok1
                                THEN Persist(table_activists, row1)
                                ELSE table_activists
                      log1 == IF rishumon_query_engine.supplied
                              THEN Append(update_log,
                                          LogEntry("activists", row1, ok1))
                              ELSE update_log
                  IN /\ rows' = [rows EXCEPT ![i] = row2]
                     /\ table_activists' =
                            IF elector_query_engine.supplied /\ ok2
                            THEN Persist(table1, row2) ELSE table1
                     /\ update_log' =
                            IF elector_query_engine.supplied
                            THEN Append(log1, LogEntry("activists", row2, ok2))
                            ELSE log1
                     \* an update that is not made has no outcome to choose
                     /\ ~rishumon_query_engine.supplied => ok1
                     /\ ~elector_query_engine.supplied => ok2
             /\ i' = i + 1
             /\ UNCHANGED <<pc, raised>>
    /\ UNCHANGED <<table_event_registration, recruitment_table,
                   recruitment_rows, phone_to_field_dict, full_run,
                   additional_query_function, rishumon_query_engine,
                   elector_query_engine, id_num, check_digit,
                   phones_to_names, today, training_dic, run,
                   after_first_run, initial_activists,
                   updates_can_fail>>

FillNameByIdReturn ==
    /\ pc = "fill_name_by_id_loop"
    /\ i > Len(rows)
    /\ pc' = "done"
    /\ UNCHANGED <<table_activists, table_event_registration,
                   recruitment_table, rows, recruitment_rows, i,
                   phone_to_field_dict, full_run, additional_query_function,
                   rishumon_query_engine, elector_query_engine, id_num,
                   check_digit, phones_to_names, today, training_dic,
                   update_log, raised, run, after_first_run,
                   initial_activists,
                   updates_can_fail>>

NextName == FillNameByIdFetch \/ FillNameByIdRow \/ FillNameByIdReturn

SpecName == InitName /\ [][NextName]_vars

IdIsValid(id) == compute_id_control_digit(id) = Returns(0)

\* C9: fill_name_by_id writes an engine's name field only for rows whose ID
\* is non-empty and checksum-valid and whose name field for that engine is
\* missing: for every combination of engines it never overwrites a name
\* field that holds a value, it writes nothing to rows whose ID is invalid
\* or fails the shape check, with no engine it writes nothing at all, and
\* what it writes is "{first} {last}" of the first result or "NOT FOUND".
C9_FillNameOnlyMissing ==
    /\ (~rishumon_query_engine.supplied /\ ~elector_query_engine.supplied)
          => (update_log = <<>> /\ table_activists = initial_activists)
    /\ \A k \in 1..Len(table_activists) :
          LET before == initial_activists[k]
              now == table_activists[k]
          IN /\ before.shem_rishumon /= <<>>
                   => now.shem_rishumon = before.shem_rishumon
             /\ before.shem_elector /= <<>>
                   => now.shem_elector = before.shem_elector
             /\ ~IdIsValid(before.tz) => (now = before /\ UpdatesOf(k) = {})
             /\ ~rishumon_query_engine.supplied
                   => now.shem_rishumon = before.shem_rishumon
             /\ ~elector_query_engine.supplied
                   => now.shem_elector = before.shem_elector
             /\ now.shem_rishumon /= before.shem_rishumon
                   => now.shem_rishumon =
                          RishumonName(rishumon_query_engine.query[before.tz])
             /\ now.shem_elector /= before.shem_elector
                   => now.shem_elector =
                          ElectorName(elector_query_engine.query[before.tz])

----------------------------------------------------------------------------
(* Specification SpecLink: one call of link_activists_and_recruitments     *)

MaxRecruitments == 2

Phone1 == <<"0", "5">>
Phone2 == <<"0", "7">>
Phone1Padded == <<" ", "0", "5">>

LinkActivistRows == [phone : {<<>>, Phone1, Phone2}, muamad : {"", KEN}]
RecruitmentRows == [telefon : {Phone1, Phone1Padded, Phone2},
                    peilei_shetach : {<<>>}]

InitLink ==
    /\ pc = "link_activists_and_recruitments"
    /\ table_activists \in Tables(LinkActivistRows, MaxActivists)
    /\ initial_activists = table_activists
    /\ recruitment_table \in Tables(RecruitmentRows, MaxRecruitments)
    /\ recruitment_rows = <<>>
    /\ table_event_registration = <<>>
    /\ phones_to_names = <<>>
    /\ NoScanState /\ NoFillState /\ NoEngines /\ NoChecksumState
    /\ NoReportState

HasPhone(row) == row.phone /= <<>>
AnyRow(row) == TRUE

\* line 247: the dict comprehension keeps, for each trimmed phone, the
\* index of the last row that carries it
InRecruitmentPhones(phone, r_rows) ==
    \E k \in 1..Len(r_rows) : strip(r_rows[k].telefon) = phone
RecruitmentPhones(phone, r_rows) ==
    CHOOSE k \in 1..Len(r_rows) :
        /\ strip(r_rows[k].telefon) = phone
        /\ \A j \in (k + 1)..Len(r_rows) : strip(r_rows[j].telefon) /= phone

LinkFetch ==
    /\ pc = "link_activists_and_recruitments"
    /\ recruitment_rows' = SelectSeq(recruitment_table, AnyRow)
    /\ rows' = SelectSeq(table_activists, HasPhone)
    /\ i' = 1
    /\ pc' = "link_loop"
    /\ UNCHANGED <<table_activists, table_event_registration,
                   recruitment_table, phone_to_field_dict, full_run,
                   additional_query_function, rishumon_query_engine,
                   elector_query_engine, id_num, check_digit,
                   phones_to_names, today, training_dic, update_log, raised,
                   run, after_first_run, initial_activists,
                   updates_can_fail>>

\* one iteration of the loop of lines 251-261.  recruitment_row.update()
\* (line 257) is called bare: when it raises, the exception leaves the
\* operation; the activist's update goes through update_row_safe.
LinkRow ==
    /\ pc = "link_loop"
    /\ i <= Len(rows)
    /\ LET phone == rows[i].phone
       IN IF InRecruitmentPhones(phone, recruitment_rows)
          THEN LET r == [rows[i] EXCEPT !.muamad = KEN]
                   n == RecruitmentPhones(phone, recruitment_rows)
                   recruitment_row ==
                       [recruitment_rows[n] EXCEPT !.peilei_shetach = <<r.id>>]
               IN /\ rows' = [rows EXCEPT ![i] = r]
                  /\ recruitment_rows' =
                         [recruitment_rows EXCEPT ![n] = recruitment_row]
                  /\ \E ok1, ok2 \in UpdateOutcomes :
                       IF ok1
                       THEN /\ recruitment_table' =
                                   Persist(recruitment_table, recruitment_row)
                            /\ table_activists' =
                                   IF ok2 THEN Persist(table_activists, r)
                                   ELSE table_activists
                            /\ update_log' = update_log \o
                                   <<LogEntry("recruitment", recruitment_row,
                                              TRUE),
                                     LogEntry("activists", r, ok2)>>
                            /\ i' = i + 1
                            /\ UNCHANGED <<pc, raised>>
                       ELSE /\ ok2
                            /\ update_log' = Append(update_log,
                                   LogEntry("recruitment", recruitment_row,
                                            FALSE))
                            /\ raised' = UpdateError
                            /\ pc' = "raised"
                            /\ UNCHANGED <<i, table_activists,
                                           recruitment_table>>
          ELSE LET r == [rows[i] EXCEPT !.muamad = LO]
               IN /\ rows' = [rows EXCEPT ![i] = r]
                  /\ \E ok \in UpdateOutcomes : UpdateRowSafe(r, ok)
                  /\ i' = i + 1
                  /\ UNCHANGED <<pc, raised, recruitment_rows,
                                 recruitment_table>>
    /\ UNCHANGED <<table_event_registration, phone_to_field_dict, full_run,
                   additional_query_function, rishumon_query_engine,
                   elector_query_engine, id_num, check_digit,
                   phones_to_names, today, training_dic, run,
                   after_first_run, initial_activists,
                   updates_can_fail>>

LinkReturn ==
    /\ pc = "link_loop"
    /\ i > Len(rows)
    /\ pc' = "done"
    /\ UNCHANGED <<table_activists, table_event_registration,
                   recruitment_table, rows, recruitment_rows, i,
                   phone_to_field_dict, full_run, additional_query_function,
                   rishumon_query_engine, elector_query_engine, id_num,
                   check_digit, phones_to_names, today, training_dic,
                   update_log, raised, run, after_first_run,
                   initial_activists,
                   updates_can_fail>>

NextLink == LinkFetch \/ LinkRow \/ LinkReturn

SpecLink == InitLink /\ [][NextLink]_vars

NoUpdateFailed == \A k \in 1..Len(update_log) : update_log[k].ok

\* C2: in a reconciliation operation that scans rows and writes them back
\* (here link_activists_and_recruitments), a failure of a single row update
\* is caught and does not abort the scan: every row after the failing one
\* is still processed and its update is still attempted.
C2_UpdateFailureDoesNotAbort ==
    /\ raised /= UpdateError
    /\ Ended => \A k \in 1..Len(rows) : UpdatesOf(rows[k].id) /= {}

\* C10: after link_activists_and_recruitments completes without update
\* failures, every activist with a non-empty normalized phone is marked KEN
\* if and only if its phone equals the trimmed phone of some recruitment
\* row, and LO otherwise; for every activist marked KEN a recruitment row
\* with that phone has its back-reference set to that activist's row id;
\* activists with an empty phone are not modified.
C10_LinkMarksAndBackReferences ==
    (pc = "done" /\ NoUpdateFailed) =>
        \A k \in 1..Len(table_activists) :
            LET a == table_activists[k]
                matches == {n \in 1..Len(recruitment_table) :
                              strip(recruitment_table[n].telefon) = a.phone}
            IN IF a.phone = <<>>
               THEN a = initial_activists[k]
               ELSE /\ a.muamad = IF matches /= {} THEN KEN ELSE LO
                    /\ a.muamad = KEN =>
                         \E n \in matches :
                            recruitment_table[n].peilei_shetach = <<a.id>>

----------------------------------------------------------------------------
(* Specification SpecDuplicates: one call of find_duplicates               *)

MaxDuplicateRows == 3

Names == {"N1", "N2", "N3"}

DuplicateRows == [phone : {<<>>, Phone1, Phone2}, shem_male : Names]

InitDuplicates ==
    /\ pc = "find_duplicates"
    /\ rows \in Tables(DuplicateRows, MaxDuplicateRows)
    /\ i = 1
    /\ phones_to_names = <<>>
    /\ update_log = <<>>
    /\ raised = NoException
    /\ updates_can_fail = TRUE
    /\ table_event_registration = <<>>
    /\ NoActivists /\ NoFillState /\ NoEngines /\ NoChecksumState
    /\ NoReportState /\ NoLinkState

\* dic[key] = value of a Python dict
DictSet(dic, key, value) ==
    [k \in DOMAIN dic \cup {key} |-> IF k = key THEN value ELSE dic[k]]

\* del dic[key] for every key of keys
DictDelete(dic, keys) == [k \in DOMAIN dic \ keys |-> dic[k]]

TooFewNamesOffByOne(names) == Len(names) <= 2

\* line 305: the group is dropped
TooFewNames(names) == Len(names) < 2

\* one iteration of the loop of lines 296-301
FindDuplicatesGroup ==
    /\ pc = "find_duplicates"
    /\ i <= Len(rows)
    /\ LET phone == rows[i].phone
           name == rows[i].shem_male
           names == IF phone \in DOMAIN phones_to_names
                    THEN phones_to_names[phone] ELSE <<>>
       IN phones_to_names' = DictSet(phones_to_names, phone,
                                     Append(names, name))
    /\ i' = i + 1
    /\ UNCHANGED <<pc, table_activists, table_event_registration,
                   recruitment_table, rows, recruitment_rows,
                   phone_to_field_dict, full_run, additional_query_function,
                   rishumon_query_engine, elector_query_engine, id_num,
                   check_digit, today, training_dic, update_log, raised, run,
                   after_first_run, initial_activists,
                   updates_can_fail>>

\* lines 303-310: the keys to delete are collected, deleted, and the dict
\* is returned
FindDuplicatesPrune ==
    /\ pc = "find_duplicates"
    /\ i > Len(rows)
    /\ LET keys_to_delete == {phone \in DOMAIN phones_to_names :
                                 TooFewNames(phones_to_names[phone])}
       IN phones_to_names' = DictDelete(phones_to_names, keys_to_delete)
    /\ pc' = "done"
    /\ UNCHANGED <<table_activists, table_event_registration,
                   recruitment_table, rows, recruitment_rows, i,
                   phone_to_field_dict, full_run, additional_query_function,
                   rishumon_query_engine, elector_query_engine, id_num,
                   check_digit, today, training_dic, update_log, raised, run,
                   after_first_run, initial_activists,
                   updates_can_fail>>

NextDuplicates == FindDuplicatesGroup \/ FindDuplicatesPrune

SpecDuplicates == InitDuplicates /\ [][NextDuplicates]_vars

RowsWithPhone(phone) == {k \in 1..Len(rows) : rows[k].phone = phone}
NamesWithPhone(phone) == {rows[k].shem_male : k \in RowsWithPhone(phone)}
PhonesOfRows == {rows[k].phone : k \in 1..Len(rows)}
NameListOf(phone) ==
    LET Test(row) == row.phone = phone
        picked == SelectSeq(rows, Test)
    IN [k \in 1..Len(picked) |-> picked[k].shem_male]

\* C4 as stated: the keys of the result are exactly the phones that occur
\* in rows with two or more distinct names (a phone whose rows all carry
\* the same name is no key), and each list holds the names of the rows
\* with that phone.
C4_KeysHaveDistinctNames ==
    pc = "done" =>
        /\ DOMAIN phones_to_names =
               {p \in PhonesOfRows : Cardinality(NamesWithPhone(p)) >= 2}
        /\ \A p \in DOMAIN phones_to_names :
               phones_to_names[p] = NameListOf(p)

\* C4 amended: the keys of the result are exactly the phones that occur in
\* two or more rows, whatever their names, and each list holds the names
\* of the rows with that phone, in row order, repetitions kept.
C4_KeysOccurTwice ==
    pc = "done" =>
        /\ DOMAIN phones_to_names =
               {p \in PhonesOfRows : Cardinality(RowsWithPhone(p)) >= 2}
        /\ \A p \in DOMAIN phones_to_names :
               phones_to_names[p] = NameListOf(p)

\* phones [P1, P1, P2] with names [N1, N2, N3] give {P1: [N1, N2]}
C4_Witness ==
    /\ pc = "done"
    /\ Len(rows) = 3
    /\ <<rows[1].phone, rows[2].phone, rows[3].phone>>
           = <<Phone1, Phone1, Phone2>>
    /\ <<rows[1].shem_male, rows[2].shem_male, rows[3].shem_male>>
           = <<"N1", "N2", "N3">>
    /\ DOMAIN phones_to_names = {Phone1}
    /\ phones_to_names[Phone1] = <<"N1", "N2">>

----------------------------------------------------------------------------
(* Specification SpecReport: one call of getTrainingParticipantCounts      *)
(* A "Submission Time" string is kept as its layout (the strptime format   *)
(* its text follows, or "other") and the calendar fields written in it;    *)
(* the time of day, which .date() drops, is left out.                      *)

MaxRegisters == 4

Date(y, m, d) == [year |-> y, month |-> m, day |-> d]

IsLeap(y) == (y % 4 = 0 /\ y % 100 /= 0) \/ y % 400 = 0

DaysInMonth(y, m) ==
    IF m = 2 THEN (IF IsLeap(y) THEN 29 ELSE 28)
    ELSE IF m \in {4, 6, 9, 11} THEN 30 ELSE 31

IsCalendarDate(d) ==
    /\ d.month \in 1..12
    /\ d.day >= 1
    /\ d.day <= DaysInMonth(d.year, d.month)

\* a < b on dates
DateBefore(a, b) ==
    \/ a.year < b.year
    \/ a.year = b.year /\ a.month < b.month
    \/ a.year = b.year /\ a.month = b.month /\ a.day < b.day

\* d - relativedelta(months=n): the month moves back, the year follows, and
\* the day is cut to the length of the month reached
MinusMonths(d, n) ==
    LET months == d.year * 12 + (d.month - 1) - n
        y == months \div 12
        m == (months % 12) + 1
    IN Date(y, m, IF d.day > DaysInMonth(y, m) THEN DaysInMonth(y, m)
                  ELSE d.day)

\* line 61
date_formats == <<"%m/%d/%Y %I:%M%p", "%Y-%m-%dT%H:%M:%S.%fZ",
                  "%Y-%m-%dT%H:%M:%SZ">>

\* datetime.strptime(date_str, fmt): the date, or ValueError
strptime(date_str, fmt) ==
    IF date_str.layout = fmt /\ IsCalendarDate(date_str.date)
    THEN Returns(date_str.date)
    ELSE Raises(ValueError)

\* parse_date: the first format that parses wins; None when none does
RECURSIVE ParseFrom(_, _)
ParseFrom(date_str, k) ==
    IF k > Len(date_formats) THEN Raises(None)
    ELSE IF strptime(date_str, date_formats[k]).raises = NoException
         THEN strptime(date_str, date_formats[k])
         ELSE ParseFrom(date_str, k + 1)

parse_date(date_str) == ParseFrom(date_str, 1)

TwoMonths == 2

TooOldInclusive(d, now) == ~DateBefore(MinusMonths(now, TwoMonths), d)

\* line 43: the register is skipped
TooOld(d, now) == DateBefore(d, MinusMonths(now, TwoMonths))

Todays == {Date(2025, 6, 5), Date(2024, 4, 30)}

SubmissionTimes ==
    {[layout |-> "%Y-%m-%dT%H:%M:%S.%fZ", date |-> Date(2025, 6, 5)],
     [layout |-> "%Y-%m-%dT%H:%M:%SZ", date |-> Date(2025, 4, 5)],
     [layout |-> "%Y-%m-%dT%H:%M:%S.%fZ", date |-> Date(2024, 2, 29)],
     [layout |-> "%m/%d/%Y %I:%M%p", date |-> Date(2024, 2, 28)],
     [layout |-> "%Y-%m-%dT%H:%M:%SZ", date |-> Date(2025, 2, 30)],
     [layout |-> "other", date |-> Date(2025, 6, 5)]}

Trainings == {"A", "B"}

RegisterRows == [submission_time : SubmissionTimes, rishum_leirua : Trainings]

InitReport ==
    /\ pc = "getTrainingParticipantCounts"
    /\ today \in Todays
    /\ table_event_registration \in Tables(RegisterRows, MaxRegisters)
    /\ training_dic = <<>>
    /\ phones_to_names = <<>>
    /\ NoActivists /\ NoScanState /\ NoFillState /\ NoEngines
    /\ NoChecksumState /\ NoLinkState

\* line 33: registers = baserowAccess.get_all_registrations()
ReportFetch ==
    /\ pc = "getTrainingParticipantCounts"
    /\ rows' = SelectSeq(table_event_registration, AnyRow)
    /\ i' = 1
    /\ pc' = "report_loop"
    /\ UNCHANGED <<table_activists, table_event_registration,
                   recruitment_table, recruitment_rows, phone_to_field_dict,
                   full_run, additional_query_function,
                   rishumon_query_engine, elector_query_engine, id_num,
                   check_digit, phones_to_names, today, training_dic,
                   update_log, raised, run, after_first_run,
                   initial_activists,
                   updates_can_fail>>

\* one iteration of the loop of lines 35-51
ReportRegister ==
    /\ pc = "report_loop"
    /\ i <= Len(rows)
    /\ LET pharsed_date == parse_date(rows[i].submission_time)
           training == rows[i].rishum_leirua
       IN IF pharsed_date.raises /= NoException
          THEN UNCHANGED training_dic
          ELSE IF TooOld(pharsed_date.value, today)
          THEN UNCHANGED training_dic
          ELSE training_dic' =
                  IF training \notin DOMAIN training_dic
                  THEN DictSet(training_dic, training, 1)
                  ELSE DictSet(training_dic, training,
                               training_dic[training] + 1)
    /\ i' = i + 1
    /\ UNCHANGED <<pc, table_activists, table_event_registration,
                   recruitment_table, rows, recruitment_rows,
                   phone_to_field_dict, full_run, additional_query_function,
                   rishumon_query_engine, elector_query_engine, id_num,
                   check_digit, phones_to_names, today, update_log, raised,
                   run, after_first_run, initial_activists,
                   updates_can_fail>>

\* line 53
ReportReturn ==
    /\ pc = "report_loop"
    /\ i > Len(rows)
    /\ pc' = "done"
    /\ UNCHANGED <<table_activists, table_event_registration,
                   recruitment_table, rows, recruitment_rows, i,
                   phone_to_field_dict, full_run, additional_query_function,
                   rishumon_query_engine, elector_query_engine, id_num,
                   check_digit, phones_to_names, today, training_dic,
                   update_log, raised, run, after_first_run,
                   initial_activists,
                   updates_can_fail>>

NextReport == ReportFetch \/ ReportRegister \/ ReportReturn

SpecReport == InitReport /\ [][NextReport]_vars

\* the registrations the claim counts for a training: the timestamp parses
\* and its date is today minus two months or later
Counted(training) ==
    {k \in 1..Len(table_event_registration) :
        LET r == table_event_registration[k]
        IN /\ r.rishum_leirua = training
           /\ r.submission_time.layout \in Range(date_formats)
           /\ IsCalendarDate(r.submission_time.date)
           /\ \/ r.submission_time.date = MinusMonths(today, 2)
              \/ DateBefore(MinusMonths(today, 2), r.submission_time.date)}

\* C5: the result maps each training to the number of its registrations
\* whose timestamp parses and whose date is not earlier than today minus
\* two months (the date exactly two months back is counted); a training
\* with no counted registration is no key of the result.
C5_TrainingCounts ==
    pc = "done" =>
        /\ DOMAIN training_dic = {t \in Trainings : Counted(t) /= {}}
        /\ \A t \in DOMAIN training_dic :
               training_dic[t] = Cardinality(Counted(t))

\* A: today, today, an old date; B: today; the result is {A: 2, B: 1};
\* and a run in which the date exactly two months back is counted
C5_Witness ==
    /\ pc = "done"
    /\ today = Date(2025, 6, 5)
    /\ Len(rows) = 4
    /\ DOMAIN training_dic = {"A", "B"}
    /\ training_dic["A"] = 2 /\ training_dic["B"] = 1
    /\ \E k \in 1..4 : /\ rows[k].rishum_leirua = "A"
                       /\ rows[k].submission_time.date = Date(2024, 2, 28)
    /\ \E k \in 1..4 : /\ rows[k].rishum_leirua = "A"
                       /\ rows[k].submission_time.date = Date(2025, 4, 5)

----------------------------------------------------------------------------
(* str.split, str.join and the helpers of the phone-join fill              *)

Separator == <<" ", ",", " ">>

\* the occurrences of sep in s
Occurrences(s, sep) ==
    {k \in 1..(Len(s) - Len(sep) + 1) : SubSeq(s, k, k + Len(sep) - 1) = sep}

Min(S) == CHOOSE m \in S : \A n \in S : m <= n

\* s.split(sep)
RECURSIVE split(_, _)
split(s, sep) ==
    IF Occurrences(s, sep) = {} THEN <<s>>
    ELSE LET k == Min(Occurrences(s, sep))
         IN <<SubSeq(s, 1, k - 1)>>
            \o split(SubSeq(s, k + Len(sep), Len(s)), sep)

\* sep.join(list)
RECURSIVE join(_, _)
join(sep, list) ==
    IF list = <<>> THEN <<>>
    ELSE IF Len(list) = 1 THEN list[1]
    ELSE list[1] \o sep \o join(sep, Tail(list))

\* list(set): the lists that hold each element of S once, in any order
Orderings(S) ==
    {f \in [1..Cardinality(S) -> S] : \A x \in S : \E k \in DOMAIN f : f[k] = x}

\* lines 83-105, with the one column that contains field_name read as
\* row.field
RECURSIVE BuildFrom(_, _, _)
BuildFrom(table_rows, k, phone_to_field) ==
    IF k > Len(table_rows) THEN phone_to_field
    ELSE LET field_content == table_rows[k].field
             phone_num == table_rows[k].phone
         IN BuildFrom(table_rows, k + 1,
               IF field_content /= <<>>
               THEN IF phone_num \in DOMAIN phone_to_field
                    THEN DictSet(phone_to_field, phone_num,
                                 Append(phone_to_field[phone_num],
                                        field_content))
                    ELSE DictSet(phone_to_field, phone_num, <<field_content>>)
               ELSE phone_to_field)

build_phone_to_field_dict_from_table_rows(table_rows) ==
    BuildFrom(table_rows, 1, <<>>)

\* lines 111-116, values being a list
add_to_dict_if_not_empty(key, values, dic) ==
    IF values /= <<>>
    THEN DictSet(dic, key,
                 (IF key \in DOMAIN dic THEN dic[key] ELSE <<>>) \o values)
    ELSE dic

\* line 160: the set of which the list is made
ClearedDuplicates(list) ==
    {strip(list[k]) : k \in {n \in 1..Len(list) : list[n] /= <<>>}}

----------------------------------------------------------------------------
(* Specifications SpecFill and SpecFillTwice: the phone-join fill          *)
(* _fill_field_from_registration_to_activists, called once with either     *)
(* value of full_run, and called twice in a row with full_run = False      *)

MaxRegistrations == 2

Sa == <<"a">>
Blank == <<" ">>
SaComma == <<"a", " ", ",">>
SbSepA == <<"b", " ", ",", " ", "a">>

FillPhones == {Phone1, Phone2}

RegistrationRows == [phone : FillPhones, field : {<<>>, Sa, Blank, SaComma}]
FillActivistRows == [phone : FillPhones \cup {<<>>}, field : {<<>>, SbSepA}]

\* additional_query_function: None, or the list it returns for a phone
NoQueryFunction == [supplied |-> FALSE, query |-> [p \in FillPhones |-> <<>>]]
QueryFunctions ==
    {NoQueryFunction,
     [supplied |-> TRUE,
      query |-> [p \in FillPhones |-> IF p = Phone1 THEN <<Sa>> ELSE <<>>]]}

InitFillTables ==
    /\ pc = "fill"
    /\ table_event_registration \in Tables(RegistrationRows, MaxRegistrations)
    /\ table_activists \in Tables(FillActivistRows, MaxActivists)
    /\ initial_activists = table_activists
    /\ additional_query_function \in QueryFunctions
    /\ phone_to_field_dict = <<>>
    /\ run = 1
    /\ after_first_run = <<>>
    /\ phones_to_names = <<>>
    /\ rows = <<>>
    /\ i = 0
    /\ update_log = <<>>
    /\ raised = NoException
    /\ NoEngines /\ NoChecksumState /\ NoReportState /\ NoLinkState

\* one call, with either value of full_run; an update may fail
InitFill ==
    /\ InitFillTables
    /\ full_run \in BOOLEAN
    /\ updates_can_fail = TRUE

\* two calls with full_run = False and no update failure
InitFillTwice ==
    /\ InitFillTables
    /\ full_run = FALSE
    /\ updates_can_fail = FALSE

FiltersEveryRun(row, full) == row.phone /= <<>>

\* lines 142-144: the filters of the activists' fetch
Filters(row, full) ==
    /\ row.phone /= <<>>
    /\ ~full => row.field = <<>>

\* lines 138-145
FillFetch ==
    /\ pc = "fill"
    /\ phone_to_field_dict' =
           build_phone_to_field_dict_from_table_rows(table_event_registration)
    /\ LET Passes(row) == Filters(row, full_run)
       IN rows' = SelectSeq(table_activists, Passes)
    /\ i' = 1
    /\ pc' = "fill_loop"
    /\ UNCHANGED <<table_activists, table_event_registration,
                   recruitment_table, recruitment_rows, full_run,
                   additional_query_function, rishumon_query_engine,
                   elector_query_engine, id_num, check_digit,
                   phones_to_names, today, training_dic, update_log, raised,
                   run, after_first_run, initial_activists,
                   updates_can_fail>>

\* lines 147-156: the dict after the row's own data has been added
MergedDict(row, dic) ==
    LET phone == row.phone
        queried == IF additional_query_function.supplied
                   THEN add_to_dict_if_not_empty(phone,
                            additional_query_function.query[phone], dic)
                   ELSE dic
    IN IF row.field /= <<>>
       THEN add_to_dict_if_not_empty(phone, split(row.field, Separator),
                                     queried)
       ELSE queried

\* one iteration of the loop of lines 146-167
FillRow ==
    /\ pc = "fill_loop"
    /\ i <= Len(rows)
    /\ LET phone == rows[i].phone
           merged == MergedDict(rows[i], phone_to_field_dict)
       IN IF phone \notin DOMAIN merged
          THEN /\ phone_to_field_dict' = merged
               /\ UNCHANGED <<rows, table_activists, update_log>>
          ELSE \E values \in Orderings(ClearedDuplicates(merged[phone])) :
                 /\ phone_to_field_dict' = DictSet(merged, phone, values)
                 /\ IF values /= <<>>
                    THEN LET row == [rows[i] EXCEPT
                                        !.field = join(Separator, values)]
                         IN /\ rows' = [rows EXCEPT ![i] = row]
                            /\ \E ok \in UpdateOutcomes :
                                 /\ table_activists' =
                                      IF ok THEN Persist(table_activists, row)
                                      ELSE table_activists
                                 /\ update_log' = Append(update_log,
                                      [table |-> "activists", row |-> row,
                                       ok |-> ok, values |-> values,
                                       run |-> run])
                    ELSE UNCHANGED <<rows, table_activists, update_log>>
    /\ i' = i + 1
    /\ UNCHANGED <<pc, table_event_registration, recruitment_table,
                   recruitment_rows, full_run, additional_query_function,
                   rishumon_query_engine, elector_query_engine, id_num,
                   check_digit, phones_to_names, today, training_dic, raised,
                   run, after_first_run, initial_activists,
                   updates_can_fail>>

FillReturn ==
    /\ pc = "fill_loop"
    /\ i > Len(rows)
    /\ pc' = "returned"
    /\ after_first_run' = IF run = 1 THEN table_activists ELSE after_first_run
    /\ UNCHANGED <<table_activists, table_event_registration,
                   recruitment_table, rows, recruitment_rows, i,
                   phone_to_field_dict, full_run, additional_query_function,
                   rishumon_query_engine, elector_query_engine, id_num,
                   check_digit, phones_to_names, today, training_dic,
                   update_log, raised, run, initial_activists,
                   updates_can_fail>>

\* the same call again, on the tables as the first call left them
FillSecondCall ==
    /\ pc = "returned"
    /\ run = 1
    /\ run' = 2
    /\ pc' = "fill"
    /\ UNCHANGED <<table_activists, table_event_registration,
                   recruitment_table, rows, recruitment_rows, i,
                   phone_to_field_dict, full_run, additional_query_function,
                   rishumon_query_engine, elector_query_engine, id_num,
                   check_digit, phones_to_names, today, training_dic,
                   update_log, raised, after_first_run, initial_activists,
                   updates_can_fail>>

NextFill == FillFetch \/ FillRow \/ FillReturn

SpecFill == InitFill /\ [][NextFill]_vars

NextFillTwice == FillFetch \/ FillRow \/ FillReturn \/ FillSecondCall

SpecFillTwice == InitFillTwice /\ [][NextFillTwice]_vars

NoRepeats(list) ==
    \A j, k \in 1..Len(list) : list[j] = list[k] => j = k

\* C3: every value the fill writes to an activist's target field is the
\* " , "-join of a non-empty list with no repeated entry and no empty
\* string; when the merged list is empty nothing is written to the row.
C3_WrittenListClean ==
    \A n \in {k \in 1..Len(update_log) : update_log[k].ok} :
        LET u == update_log[n]
        IN /\ table_activists[u.row.id].field = join(Separator, u.values)
           /\ u.values /= <<>>
           /\ NoRepeats(u.values)
           /\ \A k \in 1..Len(u.values) : u.values[k] /= <<>>

\* the set of values a field holds
ValueSet(field) == Range(split(field, Separator))

\* C6: with full_run = False, unchanged registrations, a deterministic
\* supplementary lookup and no update failure, a second run of the fill
\* leaves every activist row's target field with the set of values the
\* first run left.
C6_FillIdempotent ==
    (pc = "returned" /\ run = 2 /\ ~full_run /\ NoUpdateFailed) =>
        \A k \in 1..Len(table_activists) :
            ValueSet(table_activists[k].field)
                = ValueSet(after_first_run[k].field)

\* both runs are over, the first wrote a field and the second fetched a row
C6_Witness ==
    /\ pc = "returned" /\ run = 2 /\ ~full_run /\ NoUpdateFailed
    /\ after_first_run /= initial_activists
    /\ Len(rows) > 0
    /\ \E n \in 1..Len(update_log) : update_log[n].run = 2

\* values as the fill keeps them: trimmed, the empty ones dropped
Kept(S) == {strip(v) : v \in {x \in S : x /= <<>>}}

RegistrationValues(phone) ==
    {table_event_registration[k].field :
        k \in {n \in 1..Len(table_event_registration) :
                  table_event_registration[n].phone = phone}}

SupplementaryValues(phone) ==
    IF additional_query_function.supplied
    THEN Range(additional_query_function.query[phone])
    ELSE {}

\* C8: in both modes, and also when several activist rows share a phone,
\* the set of values written to an activist row is exactly the union of
\* the registration values for its phone, the supplementary values for its
\* phone and its own existing values split on " , " (read as the fill
\* keeps values: trimmed, empty ones dropped); no value that comes only
\* from another activist row's field is written to it.
C8_WrittenIsOwnUnion ==
    \A n \in {k \in 1..Len(update_log) : update_log[k].ok} :
        LET u == update_log[n]
            own == initial_activists[u.row.id].field
        IN Range(u.values) =
              Kept(RegistrationValues(u.row.phone)
                   \cup SupplementaryValues(u.row.phone)
                   \cup (IF own /= <<>> THEN ValueSet(own) ELSE {}))

----------------------------------------------------------------------------
(* Any one operation, invoked on its own                                   *)

Init ==
    \/ InitChecksum
    \/ InitValidate
    \/ InitName
    \/ InitLink
    \/ InitDuplicates
    \/ InitReport
    \/ InitFill

Next ==
    \/ NextChecksum
    \/ NextValidate
    \/ NextName
    \/ NextLink
    \/ NextDuplicates
    \/ NextReport
    \/ NextFill

Spec == Init /\ [][Next]_vars

====
